---- MODULE Spec2Model ----
(***************************************************************************)
(* A model of merge_files_app.py: the column-name helper, the merge loop,  *)
(* the "Perform Lookup" handler and the Streamlit session around them.     *)
(*                                                                         *)
(* Strings are sequences of one-character strings, so that trimming,       *)
(* upper-casing and suffixing are computed and not assumed.  A cell is a   *)
(* string or the marker Missing (pandas NaN).  A table (DataFrame) is a    *)
(* record [cols, rows]: cols a sequence of column names, rows a sequence   *)
(* of rows, each row a sequence of cells aligned with cols.                *)
(*                                                                         *)
(* The pandas calls are modelled by what pandas does: concat takes the     *)
(* outer join of the columns; merge(how="left") keeps the left rows in     *)
(* order, gives one row per matching right row, keeps one key column when  *)
(* both keys have the same name and both otherwise, renames overlapping    *)
(* columns with _x / _y and raises when that duplicates a name;            *)
(* astype(str) prints NaN as "nan"; Series.map(dict) gives NaN for a key   *)
(* the dict lacks.                                                         *)
(*                                                                         *)
(* Inputs are bounded: the column names of one table are distinct, and no  *)
(* input column is named like a column the lookup creates (..._mapped,     *)
(* ..._x, ..._y).                                                          *)
(*                                                                         *)
(* Four specifications: SpecDedup (deduplicate_columns on any short list   *)
(* of names), SpecMerge (the merge loop on any short list of uploads),     *)
(* SpecLookup (one Perform Lookup on any small merged and mapping table),  *)
(* Spec (a session: user events, each followed by a whole script run).     *)
(***************************************************************************)
EXTENDS Integers, Sequences, FiniteSets, TLC

VARIABLES
    cols, seen, new_cols,                       \* deduplicate_columns' loop
    uploaded_files, idx, merged_df, diagnostics, \* the merge loop
    merged_in, mapping_file, map_df, request, mapped_columns, origin, lookup_pc, \* Perform Lookup
    lookup_done, uploader_key, offered, export_df, last_mapped  \* the session

dedupVars   == <<cols, seen, new_cols>>
mergeVars   == <<uploaded_files, idx, merged_df, diagnostics>>
lookupVars  == <<merged_in, mapping_file, map_df, request, mapped_columns, origin, lookup_pc>>
sessionVars == <<lookup_done, uploader_key, offered, export_df, last_mapped>>
vars == <<dedupVars, mergeVars, lookupVars, sessionVars>>

----------------------------------------------------------------------------
(* Strings *)

Missing == <<"<NaN>">>

S_x == <<"x">>
S_y == <<"y">>
S_x_1 == <<"x", "_", "1">>
S_x_2 == <<"x", "_", "2">>

Digits == <<"0", "1", "2", "3", "4", "5", "6", "7", "8", "9">>

\* str(n) of a natural number
RECURSIVE IntToStr(_)
IntToStr(n) ==
    IF n < 10 THEN <<Digits[n + 1]>>
    ELSE IntToStr(n \div 10) \o <<Digits[(n % 10) + 1]>>

RECURSIVE SeqToSet(_)
SeqToSet(s) == IF s = <<>> THEN {} ELSE {Head(s)} \cup SeqToSet(Tail(s))

\* all sequences over S of length at most n
RECURSIVE SeqsUpTo(_, _)
SeqsUpTo(S, n) ==
    IF n = 0 THEN {<<>>}
    ELSE LET shorter == SeqsUpTo(S, n - 1)
         IN  shorter \cup {Append(s, x) : s \in {t \in shorter : Len(t) = n - 1}, x \in S}

----------------------------------------------------------------------------
(* deduplicate_columns *)

MaxDedupLen == 3

DedupNames == {S_x, S_y, S_x_1, S_x_2}

\* Counter lookup: a missing key counts 0
Count(counter, col) == IF col \in DOMAIN counter THEN counter[col] ELSE 0

Increment(counter, col) ==
    [c \in DOMAIN counter \cup {col} |-> IF c = col THEN Count(counter, col) + 1 ELSE counter[c]]

\* f"{col}_{seen[col]}"
SuffixedName(col, k) == col \o <<"_">> \o IntToStr(k)

\* one iteration of the for loop: the name appended for col
DedupName(counter, col) ==
    IF Count(counter, col) # 0 THEN SuffixedName(col, Count(counter, col)) ELSE col

RECURSIVE DedupFrom(_, _, _)
DedupFrom(counter, done, rest) ==
    IF rest = <<>> THEN done
    ELSE DedupFrom(Increment(counter, Head(rest)),
                   Append(done, DedupName(counter, Head(rest))),
                   Tail(rest))

EmptyCounter == [c \in {} |-> 0]

deduplicate_columns(cs) == DedupFrom(EmptyCounter, <<>>, cs)

DedupIdle == cols = <<>> /\ seen = EmptyCounter /\ new_cols = <<>>

DedupInit == cols \in SeqsUpTo(DedupNames, MaxDedupLen) /\ seen = EmptyCounter /\ new_cols = <<>>

\* one pass of the loop body, for the column at position Len(new_cols) + 1
DedupStep ==
    /\ Len(new_cols) < Len(cols)
    /\ LET col == cols[Len(new_cols) + 1]
       IN  /\ new_cols' = Append(new_cols, DedupName(seen, col))
           /\ seen' = Increment(seen, col)
    /\ UNCHANGED <<cols, mergeVars, lookupVars, sessionVars>>

DedupDone == Len(new_cols) = Len(cols)

\* how many of the first i - 1 names equal the i-th
EarlierOccurrences(cs, i) == Cardinality({j \in 1..(i - 1) : cs[j] = cs[i]})

\* C8: deduplicate_columns returns as many names as it was given, leaves the
\* first occurrence of a name as it is, turns its k-th later occurrence into
\* name_k, and the names it returns are pairwise distinct.
C8_DedupDistinct ==
    DedupDone =>
        /\ Len(new_cols) = Len(cols)
        /\ \A i \in 1..Len(cols) :
              new_cols[i] = IF EarlierOccurrences(cols, i) = 0 THEN cols[i]
                            ELSE cols[i] \o <<"_">> \o IntToStr(EarlierOccurrences(cols, i))
        /\ \A i, j \in 1..Len(new_cols) : new_cols[i] = new_cols[j] => i = j

----------------------------------------------------------------------------
(* Tables *)

EmptyFrame == [cols |-> <<>>, rows |-> <<>>]

\* DataFrame.empty: any axis of length 0
IsEmpty(df) == Len(df.cols) = 0 \/ Len(df.rows) = 0

\* position of the first column named c (0 when absent)
RECURSIVE IndexFrom(_, _, _)
IndexFrom(cs, c, i) ==
    IF i > Len(cs) THEN 0 ELSE IF cs[i] = c THEN i ELSE IndexFrom(cs, c, i + 1)

ColIndex(cs, c) == IndexFrom(cs, c, 1)

HasCol(cs, c) == ColIndex(cs, c) # 0

\* the columns of b that a lacks, in b's order
RECURSIVE ColsMissingFrom(_, _)
ColsMissingFrom(b, a) ==
    IF b = <<>> THEN <<>>
    ELSE (IF HasCol(a, Head(b)) THEN <<>> ELSE <<Head(b)>>) \o ColsMissingFrom(Tail(b), a)

\* a row of a frame with columns from, laid out on the columns to
Reindex(row, from, to) ==
    [j \in 1..Len(to) |-> IF HasCol(from, to[j]) THEN row[ColIndex(from, to[j])] ELSE Missing]

UnionCols(a, b) == a \o ColsMissingFrom(b, a)

\* pd.concat([a, b], ignore_index=True): outer join of the columns, a's rows then b's
Concat(a, b) ==
    LET cs == UnionCols(a.cols, b.cols)
    IN  [cols |-> cs,
         rows |-> [i \in 1..Len(a.rows) |-> Reindex(a.rows[i], a.cols, cs)]
                  \o [i \in 1..Len(b.rows) |-> Reindex(b.rows[i], b.cols, cs)]]

----------------------------------------------------------------------------
(* The merge loop *)

MaxFileSize == 1073741824
MaxFiles == 3
MaxFileRows == 2

RECURSIVE LStrip(_)
LStrip(s) == IF s # <<>> /\ Head(s) = " " THEN LStrip(Tail(s)) ELSE s

RECURSIVE RStrip(_)
RStrip(s) == IF s # <<>> /\ s[Len(s)] = " " THEN RStrip(SubSeq(s, 1, Len(s) - 1)) ELSE s

\* str.strip()
Strip(s) == RStrip(LStrip(s))

\* sub in s
Contains(s, sub) ==
    \E i \in 1..(Len(s) - Len(sub) + 1) : SubSeq(s, i, i + Len(sub) - 1) = sub

S_Unnamed == <<"U", "n", "n", "a", "m", "e", "d">>

\* "" if "Unnamed" in str(col) else str(col).strip()
CleanColumn(col) == IF Contains(col, S_Unnamed) THEN <<>> ELSE Strip(col)

CleanColumns(cs) == [j \in 1..Len(cs) |-> CleanColumn(cs[j])]

\* the headers a parsed input file may carry
RawHeaders ==
    { <<S_x, S_y>>,
      <<<<" ", "x">>, <<"y", " ">>>>,
      <<S_y>>,
      <<S_Unnamed \o <<":", " ", "0">>, S_x>> }

\* an upload: its size, whether the parser reads it, and the parsed header and row count
FileShapes ==
    {[size |-> MaxFileSize + 1, readable |-> TRUE, columns |-> <<S_x, S_y>>, nrows |-> 1],
     [size |-> MaxFileSize, readable |-> FALSE, columns |-> <<>>, nrows |-> 0]}
    \cup {[size |-> MaxFileSize, readable |-> TRUE, columns |-> h, nrows |-> n] :
            h \in RawHeaders, n \in 0..MaxFileRows}

\* the cell of file number f (1-based), row r, column c: distinct cells everywhere
FileCell(f, r, c) == <<"f">> \o IntToStr(f) \o <<"r">> \o IntToStr(r) \o <<"c">> \o IntToStr(c)

\* pd.read_csv / pd.read_excel of the file at position f
ReadFile(f, file) ==
    [cols |-> file.columns,
     rows |-> [r \in 1..file.nrows |-> [c \in 1..Len(file.columns) |-> FileCell(f, r, c)]]]

\* df.iloc[1:]
DropFirstRow(df) == [df EXCEPT !.rows = IF df.rows = <<>> THEN <<>> ELSE Tail(df.rows)]

Diag(kind, f) == [kind |-> kind, file |-> f]

\* one pass of the loop body for the file at 0-based index i: the accumulator
\* and the diagnostics after it
MergeIteration(acc, diags, i, file) ==
    IF file.size > MaxFileSize
    THEN [df |-> acc, diags |-> Append(diags, Diag("FileTooLarge", i + 1))]
    ELSE IF ~file.readable
    THEN [df |-> acc, diags |-> Append(diags, Diag("FileUnreadable", i + 1))]
    ELSE LET read == ReadFile(i + 1, file)
             named == [read EXCEPT !.cols = CleanColumns(read.cols)]
             df == IF i > 0 THEN DropFirstRow(named) ELSE named
         IN  IF ~IsEmpty(acc) /\ df.cols # acc.cols
             THEN [df |-> acc, diags |-> Append(diags, Diag("SchemaMismatch", i + 1))]
             ELSE [df |-> Concat(acc, df), diags |-> diags]

RECURSIVE MergeFrom(_, _, _, _)
MergeFrom(acc, diags, i, files) ==
    IF i >= Len(files) THEN [df |-> acc, diags |-> diags]
    ELSE LET step == MergeIteration(acc, diags, i, files[i + 1])
         IN  MergeFrom(step.df, step.diags, i + 1, files)

\* merged_df after the whole loop
MergeAll(files) == MergeFrom(EmptyFrame, <<>>, 0, files)

MergeInit ==
    /\ uploaded_files \in SeqsUpTo(FileShapes, MaxFiles)
    /\ idx = 0
    /\ merged_df = EmptyFrame
    /\ diagnostics = <<>>

MergeStep ==
    /\ idx < Len(uploaded_files)
    /\ LET step == MergeIteration(merged_df, diagnostics, idx, uploaded_files[idx + 1])
       IN  /\ merged_df' = step.df
           /\ diagnostics' = step.diags
    /\ idx' = idx + 1
    /\ UNCHANGED <<uploaded_files, dedupVars, lookupVars, sessionVars>>

MergeDone == idx = Len(uploaded_files)

\* the uploads the loop took into the accumulator: those it reported nothing about
AcceptedFiles ==
    {f \in 1..Len(uploaded_files) : \A k \in 1..Len(diagnostics) : diagnostics[k].file # f}

CleanHeader(f) == CleanColumns(uploaded_files[f].columns)

\* the rows the merged table is said to hold: every row of the first accepted
\* upload, then every row but the first of each later accepted upload
RECURSIVE RowsAsClaimed(_, _, _)
RowsAsClaimed(f, accepted, first) ==
    IF f > Len(uploaded_files) THEN <<>>
    ELSE IF f \notin accepted THEN RowsAsClaimed(f + 1, accepted, first)
    ELSE LET rows == ReadFile(f, uploaded_files[f]).rows
         IN  (IF first \/ rows = <<>> THEN rows ELSE Tail(rows))
             \o RowsAsClaimed(f + 1, accepted, FALSE)

\* C1: after the merge of uploads whose accepted tables share one column
\* sequence, the merged table holds all rows of the first accepted table and
\* then all rows but the first of every later accepted table, also when
\* uploads before the first accepted one were rejected.
C1_MergedRowsAsClaimed ==
    (MergeDone /\ \A f, g \in AcceptedFiles : CleanHeader(f) = CleanHeader(g))
        => merged_df.rows = RowsAsClaimed(1, AcceptedFiles, TRUE)

\* C2: a readable upload of admissible size whose cleaned column sequence
\* differs from that of an accumulator that already has columns is skipped:
\* the accumulator is left as it was and exactly one schema-mismatch
\* diagnostic naming the upload is added.
C2_MismatchSkipped ==
    [][(/\ idx' = idx + 1
        /\ uploaded_files[idx + 1].size <= MaxFileSize
        /\ uploaded_files[idx + 1].readable
        /\ Len(merged_df.cols) > 0
        /\ CleanHeader(idx + 1) # merged_df.cols)
       => (/\ merged_df' = merged_df
           /\ diagnostics' = Append(diagnostics, Diag("SchemaMismatch", idx + 1)))]_vars

----------------------------------------------------------------------------
(* Perform Lookup *)

MaxRowsT == 2
MaxRowsM == 2

LowerCase == <<"a", "b", "c", "d", "e", "f", "g", "h", "i", "j", "k", "l", "m",
               "n", "o", "p", "q", "r", "s", "t", "u", "v", "w", "x", "y", "z">>
UpperCase == <<"A", "B", "C", "D", "E", "F", "G", "H", "I", "J", "K", "L", "M",
               "N", "O", "P", "Q", "R", "S", "T", "U", "V", "W", "X", "Y", "Z">>

UpperChar(c) ==
    IF \E i \in 1..Len(LowerCase) : LowerCase[i] = c
    THEN UpperCase[CHOOSE i \in 1..Len(LowerCase) : LowerCase[i] = c]
    ELSE c

\* str.upper()
Upper(s) == [i \in 1..Len(s) |-> UpperChar(s[i])]

\* astype(str) of one cell: NaN prints as "nan"
AsStr(cell) == IF cell = Missing THEN <<"n", "a", "n">> ELSE cell

\* .astype(str).str.strip().str.upper() of one cell
NormalizeKey(cell) == Upper(Strip(AsStr(cell)))

\* df[c] = df[c].astype(str).str.strip().str.upper()
NormalizeColumn(df, c) ==
    LET k == ColIndex(df.cols, c)
    IN  [df EXCEPT !.rows = [i \in 1..Len(df.rows) |->
                                [df.rows[i] EXCEPT ![k] = NormalizeKey(df.rows[i][k])]]]

S_mapped == <<"_", "m", "a", "p", "p", "e", "d">>
S_NotMatched == <<"N", "o", "t", " ", "M", "a", "t", "c", "h", "e", "d">>
S_suffix_x == <<"_", "x">>
S_suffix_y == <<"_", "y">>

\* f"{value_col_map}_mapped"
MappedName(v) == v \o S_mapped

IsUnique(cs) == \A i, j \in 1..Len(cs) : cs[i] = cs[j] => i = j

\* the positions of the rows of right whose first cell is key, ascending
MatchesOf(right, key) == {j \in 1..Len(right.rows) : right.rows[j][1] = key}

RECURSIVE SetToSortedSeq(_)
SetToSortedSeq(S) ==
    IF S = {} THEN <<>>
    ELSE LET m == CHOOSE x \in S : \A y \in S : x <= y
         IN  <<m>> \o SetToSortedSeq(S \ {m})

InnerJoinedRows(lrow, key, right, keep) ==
    LET hits == SetToSortedSeq(MatchesOf(right, key))
    IN  [n \in 1..Len(hits) |-> lrow \o [c \in 1..Len(keep) |-> right.rows[hits[n]][keep[c]]]]

\* the rows a left join gives for one left row: one per matching right row, in
\* the right table's order, or one padded with NaN when nothing matches
JoinedRows(lrow, key, right, keep) ==
    LET hits == SetToSortedSeq(MatchesOf(right, key))
    IN  IF hits = <<>>
        THEN <<lrow \o [c \in 1..Len(keep) |-> Missing]>>
        ELSE [n \in 1..Len(hits) |-> lrow \o [c \in 1..Len(keep) |-> right.rows[hits[n]][keep[c]]]]

RECURSIVE JoinAll(_, _, _, _)
JoinAll(lrows, k, right, keep) ==
    IF lrows = <<>> THEN <<>>
    ELSE JoinedRows(Head(lrows), Head(lrows)[k], right, keep)
         \o JoinAll(Tail(lrows), k, right, keep)

\* left.merge(right, left_on=lk, right_on=rk, how="left") for a two-column right
\* table <<rk, value>>: [ok, df]; ok is FALSE when pandas raises MergeError
\* because the suffixes _x / _y would duplicate a column name
LeftMerge(left, right, lk, rk) ==
    LET keep == IF lk = rk THEN <<2>> ELSE <<1, 2>>     \* an equally named right key is dropped
        rcols == [c \in 1..Len(keep) |-> right.cols[keep[c]]]
        lnew == [j \in 1..Len(left.cols) |->
                    IF HasCol(rcols, left.cols[j]) THEN left.cols[j] \o S_suffix_x
                    ELSE left.cols[j]]
        rnew == [c \in 1..Len(rcols) |->
                    IF HasCol(left.cols, rcols[c]) THEN rcols[c] \o S_suffix_y
                    ELSE rcols[c]]
    IN  IF (IsUnique(left.cols) /\ ~IsUnique(lnew)) \/ (IsUnique(rcols) /\ ~IsUnique(rnew))
        THEN [ok |-> FALSE, df |-> left]
        ELSE [ok |-> TRUE,
              df |-> [cols |-> lnew \o rnew,
                      rows |-> JoinAll(left.rows, ColIndex(left.cols, lk), right, keep),
                      origin |-> left.origin \o [c \in 1..Len(rnew) |-> 0]]]

NoFillNa(df, c) == df

\* df[c] = df[c].fillna("Not Matched")
FillNa(df, c) ==
    LET k == ColIndex(df.cols, c)
    IN  [df EXCEPT !.rows = [i \in 1..Len(df.rows) |->
                                [df.rows[i] EXCEPT ![k] =
                                    IF df.rows[i][k] = Missing THEN S_NotMatched
                                    ELSE df.rows[i][k]]]]

\* map_df[[key_col_map, value_col_map]].rename(columns={value_col_map: new_col_name})
Projection(map, kM, v, new) ==
    [cols |-> <<kM, new>>,
     rows |-> [j \in 1..Len(map.rows) |->
                 <<map.rows[j][ColIndex(map.cols, kM)], map.rows[j][ColIndex(map.cols, v)]>>]]

\* the "merge" branch for one value column: [ok, df]; ok is FALSE when the
\* branch raises, df is merged_df as the branch leaves it
LookupByMerge(df, map, kT, kM, v) ==
    LET new == MappedName(v)
        joined == LeftMerge(df, Projection(map, kM, v, new), kT, kM)
    IN  IF ~joined.ok THEN [ok |-> FALSE, df |-> df]
        ELSE IF ~HasCol(joined.df.cols, new)
        THEN [ok |-> FALSE, df |-> joined.df]       \* .get gives a str, which has no fillna
        ELSE [ok |-> TRUE, df |-> FillNa(joined.df, new)]

\* dict(zip(keys, values))[key]: the value of the last row with that key, NaN when none
DictLookup(map, kM, v, key) ==
    LET hits == {j \in 1..Len(map.rows) : map.rows[j][ColIndex(map.cols, kM)] = key}
    IN  IF hits = {} THEN Missing
        ELSE map.rows[CHOOSE j \in hits : \A h \in hits : h <= j][ColIndex(map.cols, v)]

\* df[c] = values: overwrites the column named c, or adds it as the last column
AssignColumn(df, c, values) ==
    IF HasCol(df.cols, c)
    THEN [df EXCEPT !.rows = [i \in 1..Len(df.rows) |->
                                [df.rows[i] EXCEPT ![ColIndex(df.cols, c)] = values[i]]]]
    ELSE [cols |-> Append(df.cols, c),
          rows |-> [i \in 1..Len(df.rows) |-> Append(df.rows[i], values[i])],
          origin |-> Append(df.origin, 0)]

\* the "map" branch for one value column
LookupByMap(df, map, kT, kM, v) ==
    LET new == MappedName(v)
        k == ColIndex(df.cols, kT)
        looked == [i \in 1..Len(df.rows) |-> DictLookup(map, kM, v, df.rows[i][k])]
    IN  [ok |-> TRUE, df |-> FillNa(AssignColumn(df, new, looked), new)]

\* one pass of the for loop over value_cols_to_map
LookupColumn(df, map, req, v) ==
    IF req.method = "merge"
    THEN LookupByMerge(df, map, req.key_col_main, req.key_col_map, v)
    ELSE LookupByMap(df, map, req.key_col_main, req.key_col_map, v)

RECURSIVE LookupLoop(_, _, _, _, _)
LookupLoop(df, done, map, req, rest) ==
    IF rest = <<>> THEN [df |-> df, mapped_columns |-> done]
    ELSE LET r == LookupColumn(df, map, req, Head(rest))
         IN  LookupLoop(r.df, IF r.ok THEN Append(done, MappedName(Head(rest))) ELSE done,
                        map, req, Tail(rest))

\* col_data = df.pop(col); df.insert(0, col, col_data)
MoveToFront(df, c) ==
    LET k == ColIndex(df.cols, c)
        Moved(s) == <<s[k]>> \o SubSeq(s, 1, k - 1) \o SubSeq(s, k + 1, Len(s))
    IN  [cols |-> Moved(df.cols),
         rows |-> [i \in 1..Len(df.rows) |-> Moved(df.rows[i])],
         origin |-> Moved(df.origin)]

Reverse(s) == [i \in 1..Len(s) |-> s[Len(s) + 1 - i]]

RECURSIVE MoveAllToFront(_, _)
MoveAllToFront(df, names) ==
    IF names = <<>> THEN df ELSE MoveAllToFront(MoveToFront(df, Head(names)), Tail(names))

ReorderForward(df, mapped) == MoveAllToFront(df, mapped)

\* for col in reversed(mapped_columns): pop it and insert it at position 0
Reorder(df, mapped) == MoveAllToFront(df, Reverse(mapped))

\* Bookkeeping for the properties, not program state: inside the handler a
\* table carries, for each column, the position that column had in the table
\* the handler was given (0 for a column the handler added).
Tagged(df) == [cols |-> df.cols, rows |-> df.rows, origin |-> [j \in 1..Len(df.cols) |-> j]]

\* the body of "if st.button('Perform Lookup')": merged_df, map_df and
\* mapped_columns when it ends
Lookup(df, map, req) ==
    LET keyedT == NormalizeColumn(Tagged(df), req.key_col_main)
        keyedM == NormalizeColumn(map, req.key_col_map)
        looped == LookupLoop(keyedT, <<>>, keyedM, req, req.value_cols_to_map)
        final == Reorder(looped.df, looped.mapped_columns)
    IN  [df |-> [cols |-> final.cols, rows |-> final.rows],
         origin |-> final.origin,
         map |-> keyedM,
         mapped_columns |-> looped.mapped_columns]

S_ID == <<"I", "D">>
S_Key == <<"K", "e", "y">>
S_Name == <<"N", "a", "m", "e">>
S_Region == <<"R", "e", "g", "i", "o", "n">>

S_a1 == <<" ", "a", "1">>
S_b == <<"b">>

\* key cells of the merged table: " a1", "b", NaN
TKeyCells == {S_a1, S_b, Missing}

\* the second cell of a merged-table row, from its first
Twin(k) == IF k = S_a1 THEN S_b ELSE IF k = S_b THEN Missing ELSE S_a1

\* key cells of the mapping table: "A1" and "a1 " normalize alike
MKeyCells == {<<"A", "1">>, <<"a", "1", " ">>, S_b}

\* merged tables: columns ID, Key, at least one row (the lookup is offered
\* only for a merged table that is not empty)
TFrames ==
    {[cols |-> <<S_ID, S_Key>>, rows |-> [i \in 1..Len(k) |-> <<k[i], Twin(k[i])>>]] :
        k \in {t \in SeqsUpTo(TKeyCells, MaxRowsT) : Len(t) >= 1}}

\* the value cells of mapping row j
NameCell(j) == <<"n">> \o IntToStr(j)
RegionCell(j) == <<"g">> \o IntToStr(j)

\* parsed mapping files: columns ID, Name, Region; the Name cell of the last
\* row may be blank (NaN)
MFrames ==
    {[cols |-> <<S_ID, S_Name, S_Region>>,
      rows |-> [j \in 1..Len(k) |->
                  <<k[j], IF blank /\ j = Len(k) THEN Missing ELSE NameCell(j), RegionCell(j)>>]] :
        k \in SeqsUpTo(MKeyCells, MaxRowsM), blank \in BOOLEAN}

\* the selections of one distinct entry after another (st.multiselect keeps the order of choice)
RECURSIVE Selections(_)
Selections(S) ==
    {<<>>} \cup UNION {{<<c>> \o rest : rest \in Selections(S \ {c})} : c \in S}

\* the lookup requests the widgets can produce for merged table t and mapping table m
Requests(t, m) ==
    {[key_col_main |-> kT, key_col_map |-> kM, value_cols_to_map |-> V, method |-> meth] :
        kT \in SeqToSet(t.cols),
        kM \in SeqToSet(m.cols),
        V \in Selections(SeqToSet(m.cols)),
        meth \in {"merge", "map"}}

\* map_df = pd.read_csv(mapping_file); map_df.columns = deduplicate_columns(map_df.columns)
ReadMapping(file) == [file EXCEPT !.cols = deduplicate_columns(file.cols)]

NoRequest == [key_col_main |-> <<>>, key_col_map |-> <<>>, value_cols_to_map |-> <<>>,
              method |-> "merge"]

LookupInit ==
    /\ merged_in \in TFrames
    /\ merged_df = merged_in
    /\ mapping_file \in MFrames
    /\ map_df = ReadMapping(mapping_file)
    /\ request \in {r \in Requests(merged_in, map_df) :
                        ~HasCol(r.value_cols_to_map, r.key_col_map)}
    /\ mapped_columns = <<>>
    /\ origin = <<>>
    /\ lookup_pc = "ready"

PerformLookup ==
    /\ lookup_pc = "ready"
    /\ LET r == Lookup(merged_df, map_df, request)
       IN  /\ merged_df' = r.df
           /\ map_df' = r.map
           /\ mapped_columns' = r.mapped_columns
           /\ origin' = r.origin
    /\ lookup_pc' = "done"
    /\ UNCHANGED <<merged_in, mapping_file, request, uploaded_files, idx, diagnostics,
                   dedupVars, sessionVars>>

LookupDone == lookup_pc = "done"

\* the requested value columns, the key columns' positions, and the mapping
\* rows whose normalized key equals a given normalized key
V == request.value_cols_to_map
KeyPosT == ColIndex(merged_df.cols, request.key_col_main)
KeyPosM == ColIndex(mapping_file.cols, request.key_col_map)
MappingRowsFor(key) ==
    {j \in 1..Len(mapping_file.rows) : NormalizeKey(mapping_file.rows[j][KeyPosM]) = key}
CellOf(i, c) == merged_df.rows[i][ColIndex(merged_df.cols, c)]

\* C3: a lookup never removes rows: under "map" the merged table has exactly
\* as many rows after the lookup as before it, under "merge" at least as many.
C3_RowsNeverRemoved ==
    LookupDone =>
        IF request.method = "map"
        THEN Len(merged_df.rows) = Len(merged_in.rows)
        ELSE Len(merged_df.rows) >= Len(merged_in.rows)

\* a merge lookup with an unmatched row and a row that fanned out
C3_Witness ==
    /\ LookupDone /\ request.method = "merge" /\ V # <<>>
    /\ Len(merged_df.rows) > Len(merged_in.rows)
    /\ \E i \in 1..Len(merged_df.rows) : MappingRowsFor(merged_df.rows[i][KeyPosT]) = {}

\* C4: under "map", the cell of every row in every column v_mapped is M[v] of
\* the last row of M whose normalized key equals the row's normalized key.
C4_MapTakesLastMatch ==
    (LookupDone /\ request.method = "map") =>
        \A i \in 1..Len(merged_in.rows) : \A n \in 1..Len(V) :
            LET key == NormalizeKey(merged_in.rows[i][ColIndex(merged_in.cols, request.key_col_main)])
                hits == MappingRowsFor(key)
                last == CHOOSE j \in hits : \A h \in hits : h <= j
            IN  hits # {} =>
                    /\ HasCol(merged_df.cols, MappedName(V[n]))
                    /\ i <= Len(merged_df.rows)
                    /\ CellOf(i, MappedName(V[n]))
                         = mapping_file.rows[last][ColIndex(mapping_file.cols, V[n])]

\* C5: after a lookup (either strategy) every row whose normalized key equals
\* the normalized key of no mapping row holds "Not Matched" in every created
\* _mapped column.
C5_UnmatchedGetSentinel ==
    LookupDone =>
        \A i \in 1..Len(merged_df.rows) :
            MappingRowsFor(merged_df.rows[i][KeyPosT]) = {} =>
                \A n \in 1..Len(mapped_columns) :
                    /\ HasCol(merged_df.cols, mapped_columns[n])
                    /\ CellOf(i, mapped_columns[n]) = S_NotMatched

\* two columns were created and some row has no match, beside a row that has one
C5_Witness ==
    /\ LookupDone /\ Len(mapped_columns) = 2
    /\ \E i \in 1..Len(merged_df.rows) : MappingRowsFor(merged_df.rows[i][KeyPosT]) = {}
    /\ \E i \in 1..Len(merged_df.rows) : MappingRowsFor(merged_df.rows[i][KeyPosT]) # {}

\* C6: after a lookup the created _mapped columns are the leading columns, in
\* the order of V, and the columns the table had before the lookup follow in
\* their original relative order.
C6_MappedColumnsLead ==
    LookupDone =>
        LET n == Len(V)
            IsOriginal(o) == o > 0
        IN  /\ Len(merged_df.cols) >= n
            /\ SubSeq(merged_df.cols, 1, n) = [k \in 1..n |-> MappedName(V[k])]
            /\ \A k \in 1..n : origin[k] = 0
            /\ SelectSeq(origin, IsOriginal) = [j \in 1..Len(merged_in.cols) |-> j]

\* two value columns, chosen against the mapping table's column order, and a
\* join that added a column of its own
C6_Witness ==
    /\ LookupDone /\ V = <<S_Region, S_Name>>
    /\ Len(merged_df.cols) > Len(merged_in.cols) + 2

\* C7: the columns after a lookup are the columns before it plus v_mapped for
\* each v of V, and nothing else.
C7_OnlyMappedColumnsAdded ==
    LookupDone =>
        SeqToSet(merged_df.cols)
            = SeqToSet(merged_in.cols) \cup {MappedName(V[n]) : n \in 1..Len(V)}

----------------------------------------------------------------------------
(* The session: one action is one user event and the script run it triggers *)

MaxSessionFiles == 2
MaxStartOvers == 2

\* the uploads of a session: a two-row file, a header-only file, an oversized file
SessionFileShapes ==
    {[size |-> MaxFileSize, readable |-> TRUE, columns |-> <<S_ID, S_Key>>, nrows |-> 2],
     [size |-> MaxFileSize, readable |-> TRUE, columns |-> <<S_ID, S_Key>>, nrows |-> 0],
     [size |-> MaxFileSize + 1, readable |-> TRUE, columns |-> <<S_ID, S_Key>>, nrows |-> 2]}

\* the mapping files of a session: one row, no blank cell
SessionMappings == {m \in MFrames : Len(m.rows) = 1 /\ m.rows[1][2] # Missing}

\* the lookups of a session: ID against ID, any choice of value columns, either method
SessionRequests ==
    {[key_col_main |-> S_ID, key_col_map |-> S_ID, value_cols_to_map |-> sel, method |-> meth] :
        sel \in Selections({S_Name, S_Region}), meth \in {"merge", "map"}}

\* mapping_file when nothing is uploaded to the mapping uploader
NoFile == EmptyFrame

\* One run of the script below the Start Over button (lines 63-153) with the
\* widgets in the given state: files and mfile the two uploaders' contents,
\* clicked whether "Perform Lookup" was the event, req the selections, done
\* st.session_state.lookup_done when the run starts.
ScriptRun(files, mfile, clicked, req, done) ==
    LET merged == MergeAll(files)
        section == ~IsEmpty(merged.df)                  \* line 88
        mapping == IF section THEN mfile ELSE NoFile    \* an uploader that is not rendered loses its file
        controls == section /\ mapping # NoFile         \* line 102
        looked == IF controls /\ clicked
                  THEN Lookup(merged.df, ReadMapping(mapping), req)
                  ELSE [df |-> merged.df, origin |-> <<>>, map |-> EmptyFrame,
                        mapped_columns |-> <<>>]
        done_now == done \/ (controls /\ clicked)       \* line 141
    IN  [merged_df |-> looked.df,
         diagnostics |-> merged.diags,
         mapping_file |-> mapping,
         mapped_columns |-> looked.mapped_columns,
         performed |-> controls /\ clicked,
         lookup_done |-> done_now,
         offered |-> (IF section THEN {"merged_download", "mapping_uploader"} ELSE {})
                     \cup (IF controls THEN {"lookup_controls"} ELSE {})
                     \cup (IF done_now THEN {"lookup_download"} ELSE {}),
         export_df |-> IF done_now THEN looked.df ELSE EmptyFrame]   \* line 152

\* the state the run leaves
RunLeaves(files, run, req) ==
    /\ uploaded_files' = files
    /\ merged_df' = run.merged_df
    /\ diagnostics' = run.diagnostics
    /\ mapping_file' = run.mapping_file
    /\ request' = req
    /\ lookup_done' = run.lookup_done
    /\ offered' = run.offered
    /\ export_df' = run.export_df
    /\ last_mapped' = IF run.performed THEN run.mapped_columns ELSE last_mapped
    /\ UNCHANGED <<dedupVars, idx, merged_in, map_df, mapped_columns, origin, lookup_pc>>

\* a fresh session after its first run: nothing uploaded
SessionInit ==
    /\ uploaded_files = <<>> /\ idx = 0 /\ merged_df = EmptyFrame /\ diagnostics = <<>>
    /\ merged_in = EmptyFrame /\ mapping_file = NoFile /\ map_df = EmptyFrame
    /\ request = NoRequest /\ mapped_columns = <<>> /\ origin = <<>> /\ lookup_pc = "idle"
    /\ lookup_done = FALSE /\ uploader_key = 1 /\ offered = {}
    /\ export_df = EmptyFrame /\ last_mapped = <<>>
    /\ DedupIdle

\* the user adds or removes files in the main uploader
ChangeFiles ==
    \E files \in SeqsUpTo(SessionFileShapes, MaxSessionFiles) :
        /\ files # uploaded_files
        /\ RunLeaves(files, ScriptRun(files, mapping_file, FALSE, request, lookup_done), request)
        /\ UNCHANGED uploader_key

\* the user puts a file into, or takes it out of, the mapping uploader
ChangeMapping ==
    \E mfile \in SessionMappings \cup {NoFile} :
        /\ "mapping_uploader" \in offered
        /\ mfile # mapping_file
        /\ RunLeaves(uploaded_files,
                     ScriptRun(uploaded_files, mfile, FALSE, request, lookup_done), request)
        /\ UNCHANGED uploader_key

\* the user sets the selections and clicks "Perform Lookup"
ClickPerformLookup ==
    /\ "lookup_controls" \in offered
    /\ \E req \in SessionRequests :
        /\ RunLeaves(uploaded_files,
                     ScriptRun(uploaded_files, mapping_file, TRUE, req, lookup_done), req)
    /\ UNCHANGED uploader_key

\* the user edits a file name or a format, or clicks a download button: a run
\* with no widget changed and no button of the script pressed
Rerun ==
    /\ RunLeaves(uploaded_files,
                 ScriptRun(uploaded_files, mapping_file, FALSE, request, lookup_done), request)
    /\ UNCHANGED uploader_key

\* "Start Over": every key of st.session_state is deleted, the uploader gets a
\* new key (so it comes back empty), and st.rerun() runs the script afresh
StartOver ==
    /\ uploader_key <= MaxStartOvers
    /\ uploader_key' = uploader_key + 1
    /\ uploaded_files' = <<>>
    /\ merged_df' = EmptyFrame
    /\ diagnostics' = <<>>
    /\ mapping_file' = NoFile
    /\ request' = NoRequest
    /\ lookup_done' = FALSE
    /\ offered' = {}
    /\ export_df' = EmptyFrame
    /\ last_mapped' = <<>>
    /\ UNCHANGED <<dedupVars, idx, merged_in, map_df, mapped_columns, origin, lookup_pc>>

SessionNext == ChangeFiles \/ ChangeMapping \/ ClickPerformLookup \/ Rerun \/ StartOver

\* C9: in every run, if no rows were merged, neither the lookup controls nor
\* any download (of the merged file, of the after-lookup file) is offered.
C9_NothingOfferedWithoutRows ==
    Len(merged_df.rows) = 0
        => offered \cap {"lookup_controls", "merged_download", "lookup_download"} = {}

\* C10: once a lookup has completed, in every run before Start Over in which
\* the after-lookup download is offered, the table handed to generate_download
\* holds the _mapped columns that lookup produced (stated for the runs that
\* still merge rows, so that removing the uploads is not what breaks it).
C10_EnrichedTablePersists ==
    (lookup_done /\ "lookup_download" \in offered /\ Len(merged_df.rows) > 0)
        => \A n \in 1..Len(last_mapped) : HasCol(export_df.cols, last_mapped[n])

----------------------------------------------------------------------------
(* Specifications of the parts *)

SessionIdle ==
    /\ lookup_done = FALSE /\ uploader_key = 1 /\ offered = {}
    /\ export_df = EmptyFrame /\ last_mapped = <<>>

LookupIdle ==
    /\ merged_in = EmptyFrame /\ mapping_file = EmptyFrame /\ map_df = EmptyFrame
    /\ request = NoRequest /\ mapped_columns = <<>> /\ origin = <<>> /\ lookup_pc = "idle"

SpecDedup_Init ==
    /\ DedupInit
    /\ uploaded_files = <<>> /\ idx = 0 /\ merged_df = EmptyFrame /\ diagnostics = <<>>
    /\ LookupIdle /\ SessionIdle

SpecDedup == SpecDedup_Init /\ [][DedupStep]_vars

SpecMerge_Init == MergeInit /\ DedupIdle /\ LookupIdle /\ SessionIdle

SpecMerge == SpecMerge_Init /\ [][MergeStep]_vars

SpecLookup_Init ==
    /\ LookupInit
    /\ uploaded_files = <<>> /\ idx = 0 /\ diagnostics = <<>>
    /\ DedupIdle /\ SessionIdle

SpecLookup == SpecLookup_Init /\ [][PerformLookup]_vars

Spec == SessionInit /\ [][SessionNext]_vars

====
